---- MODULE Spec2Model ----
(***************************************************************************)
(* Code Session Tracker (src/src/extension.ts): the session activity       *)
(* aggregation engine.  The module-level variables of extension.ts are the *)
(* VARIABLES below; every event handler, command and timer callback is one *)
(* action, executed atomically at the instant `now` (the value Date.now()  *)
(* returns inside the handler).  Times are milliseconds, as in the source. *)
(***************************************************************************)
EXTENDS Integers, Sequences, FiniteSets, TLC

-----------------------------------------------------------------------------
(* Bounds of the model.                                                    *)

\* Date.now() when the model starts (any positive instant).
Epoch == 1000000
\* How many times the wall clock advances in one behaviour.
MaxAdvances == 2
\* Cap on the sum of the files' edits counters.
MaxEdits == 3
\* Cap on the number of notes stored (session notes and file notes together).
MaxNotes == 2

\* The dashboard panels the user can open.
Panels == {"p1", "p2"}

\* The amounts by which the wall clock advances between two handlers: below and
\* at the edit-gap cap (30 s), the idle-check period (60 s), at the idle
\* timeout (3 min), at the stale-focus ceiling (5 min).  Each scope
\* below takes its clock steps from these.
Deltas == {1000, 30000, 60000, 180000, 300000}

\* By how many ms the clock advances while one snapshot is computed and posted.
ClockSkews == {0, 1}

-----------------------------------------------------------------------------
(* Program constants.                                                      *)

\* `number | null`: the null of debugStartTime and focusStartTime.
Null == -1
idleTimeout == 3 * 60 * 1000
EditGapCap == 30000
StaleCeiling == 5 * 60 * 1000
ActivityCheckPeriod == 60000
IdleTickCredit == 60000
DashboardUpdatePeriod == 1000

-----------------------------------------------------------------------------
(* Files.  A path is kept in the parts path.dirname and path.extname cut   *)
(* it into: "/p/a.py" is [dir |-> "/p", base |-> "a", ext |-> <<".", "py">>]. *)

FileA == [dir |-> "/p", base |-> "a", ext |-> <<".", "py">>]
FileB == [dir |-> "/p", base |-> "b", ext |-> <<".", "py">>]
FileM == [dir |-> "/q", base |-> "Makefile", ext |-> <<>>]
Files == {FileA, FileB, FileM}

\* currentFocusedFile = null
NoFile == [dir |-> "", base |-> "", ext |-> <<>>]

\* path.dirname(file)
Dirname(file) == file.dir

\* path.extname(file).slice(1): the extension without its leading dot ("" when
\* the file has no extension).
ExtSlice(file) == IF file.ext = <<>> THEN <<>> ELSE Tail(file.ext)

\* new Date(t).toISOString(): millisecond precision.
ToISOString(t) == <<"iso", t>>

\* new Date(t).toLocaleString(): second precision.
ToLocaleString(t) == <<"locale", t \div 1000>>

\* String.prototype.trim on a text given as a sequence of characters.
RECURSIVE TrimStart(_)
TrimStart(s) == IF s # <<>> /\ Head(s) = " " THEN TrimStart(Tail(s)) ELSE s

RECURSIVE TrimEnd(_)
TrimEnd(s) == IF s # <<>> /\ s[Len(s)] = " "
              THEN TrimEnd(SubSeq(s, 1, Len(s) - 1)) ELSE s

Trim(s) == TrimEnd(TrimStart(s))

\* What showInputBox resolves to: undefined (cancelled) or a text.
NoteInputs == { [given |-> FALSE, text |-> <<>>],
                [given |-> TRUE,  text |-> <<>>],
                [given |-> TRUE,  text |-> <<" ">>],
                [given |-> TRUE,  text |-> <<" ", "x", " ">>] }

\* `${timestamp}: ${note.trim()}`
FormatNote(t, text) == <<ToLocaleString(t), Trim(text)>>

-----------------------------------------------------------------------------
(* What the environment does in one behaviour.  The features of the        *)
(* extension are independent enough that exploring all of them to the full *)
(* bounds at once is out of reach, so a behaviour draws one scope: the     *)
(* files the user touches, the steps the clock takes, how many clock       *)
(* steps, counted edits and notes there are, and whether the debugger, the *)
(* panels, restarts and the export command are used, whether writes to    *)
(* logPath and posts to a webview can fail, and whether a file of an       *)
(* earlier run is at logPath at the start.  All the handlers run in every  *)
(* scope; a scope only limits the inputs they are given.                   *)

Scopes ==
  { \* editing: edits and focus changes around the 30 s edit-gap cap
    [ name |-> "edit", files |-> {FileA, FileM}, deltas |-> {1000, 30000},
      advances |-> MaxAdvances, edits |-> MaxEdits, notes |-> 0,
      debug |-> FALSE, panels |-> {}, restart |-> FALSE, export |-> FALSE,
      faults |-> FALSE, breaks |-> FALSE, legacy |-> FALSE,
      torn |-> FALSE, skews |-> {0},
      unreadable |-> FALSE ],
    \* idling: the 3 min idle timeout and the 60 s idle check
    [ name |-> "idle", files |-> {FileA}, deltas |-> {60000, 180000, 300000},
      advances |-> MaxAdvances + 1, edits |-> 1, notes |-> 0,
      debug |-> FALSE, panels |-> {}, restart |-> FALSE, export |-> FALSE,
      faults |-> FALSE, breaks |-> FALSE, legacy |-> FALSE,
      torn |-> FALSE, skews |-> {0},
      unreadable |-> FALSE ],
    \* focus time: the flushes, the 5 min ceiling
    [ name |-> "focus", files |-> {FileA, FileM}, deltas |-> {1000, 300000},
      advances |-> MaxAdvances, edits |-> 2, notes |-> 0,
      debug |-> FALSE, panels |-> {}, restart |-> FALSE, export |-> FALSE,
      faults |-> FALSE, breaks |-> FALSE, legacy |-> FALSE,
      torn |-> FALSE, skews |-> {0},
      unreadable |-> FALSE ],
    \* debugging, also across an idle period and a restart
    [ name |-> "debug", files |-> {}, deltas |-> {1000, 300000},
      advances |-> MaxAdvances, edits |-> 0, notes |-> 0,
      debug |-> TRUE, panels |-> {}, restart |-> TRUE, export |-> FALSE,
      faults |-> FALSE, breaks |-> FALSE, legacy |-> FALSE,
      torn |-> FALSE, skews |-> {0},
      unreadable |-> FALSE ],
    \* notes and restarts
    [ name |-> "notes", files |-> {FileA}, deltas |-> {1000},
      advances |-> 1, edits |-> 1, notes |-> MaxNotes,
      debug |-> FALSE, panels |-> {"p1"}, restart |-> TRUE, export |-> FALSE,
      faults |-> FALSE, breaks |-> FALSE, legacy |-> FALSE,
      torn |-> FALSE, skews |-> {0},
      unreadable |-> FALSE ],
    \* dashboards: two panels, hidden and revealed, deliveries that fail
    [ name |-> "panels", files |-> {FileA}, deltas |-> {1000},
      advances |-> 1, edits |-> 1, notes |-> 0,
      debug |-> TRUE, panels |-> Panels, restart |-> FALSE, export |-> FALSE,
      faults |-> FALSE, breaks |-> TRUE, legacy |-> FALSE,
      torn |-> FALSE, skews |-> {0},
      unreadable |-> FALSE ],
    \* shutdown: deactivate() with two panels open
    [ name |-> "shutdown", files |-> {FileA}, deltas |-> {1000},
      advances |-> 1, edits |-> 1, notes |-> 0,
      debug |-> FALSE, panels |-> Panels, restart |-> TRUE, export |-> FALSE,
      faults |-> FALSE, breaks |-> FALSE, legacy |-> FALSE,
      torn |-> FALSE, skews |-> {0},
      unreadable |-> FALSE ],
    \* storage: a file of an earlier run at logPath, writes that fail
    [ name |-> "storage", files |-> {FileA}, deltas |-> {60000},
      advances |-> 1, edits |-> 1, notes |-> MaxNotes,
      debug |-> FALSE, panels |-> {}, restart |-> FALSE, export |-> FALSE,
      faults |-> TRUE, breaks |-> FALSE, legacy |-> TRUE,
      torn |-> FALSE, skews |-> {0},
      unreadable |-> FALSE ],
    \* folders and languages: two files of one folder and one language
    [ name |-> "folders", files |-> {FileA, FileB}, deltas |-> {1000},
      advances |-> MaxAdvances, edits |-> 2, notes |-> 0,
      debug |-> FALSE, panels |-> {}, restart |-> FALSE, export |-> FALSE,
      faults |-> FALSE, breaks |-> FALSE, legacy |-> FALSE,
      torn |-> FALSE, skews |-> {0},
      unreadable |-> FALSE ],
    \* notes, ticks and exports interleaved in one process
    [ name |-> "interleave", files |-> {}, deltas |-> {60000},
      advances |-> 1, edits |-> 0, notes |-> MaxNotes,
      debug |-> FALSE, panels |-> {"p1"}, restart |-> FALSE, export |-> TRUE,
      faults |-> FALSE, breaks |-> FALSE, legacy |-> FALSE,
      torn |-> FALSE, skews |-> {0},
      unreadable |-> FALSE ],
    \* export: the export command when writes fail
    [ name |-> "export", files |-> {FileA}, deltas |-> {1000},
      advances |-> 1, edits |-> 1, notes |-> 1,
      debug |-> FALSE, panels |-> {}, restart |-> FALSE, export |-> TRUE,
      faults |-> TRUE, breaks |-> FALSE, legacy |-> FALSE,
      torn |-> FALSE, skews |-> {0},
      unreadable |-> FALSE ],
    \* torn writes: a write that fails after the file was opened for writing
    [ name |-> "torn", files |-> {FileA}, deltas |-> {60000},
      advances |-> 1, edits |-> 1, notes |-> 1,
      debug |-> FALSE, panels |-> {}, restart |-> FALSE, export |-> FALSE,
      faults |-> TRUE, breaks |-> FALSE, legacy |-> FALSE,
      torn |-> TRUE, skews |-> {0},
      unreadable |-> FALSE ],
    \* the clock advancing between the snapshots of one broadcast
    [ name |-> "clock", files |-> {FileA}, deltas |-> {1000},
      advances |-> MaxAdvances, edits |-> 1, notes |-> 0,
      debug |-> FALSE, panels |-> Panels, restart |-> FALSE, export |-> FALSE,
      faults |-> FALSE, breaks |-> FALSE, legacy |-> FALSE,
      torn |-> FALSE, skews |-> ClockSkews,
      unreadable |-> FALSE ],
    \* reads of logPath that fail while the file is intact
    [ name |-> "reads", files |-> {}, deltas |-> {60000},
      advances |-> 1, edits |-> 0, notes |-> MaxNotes,
      debug |-> FALSE, panels |-> {}, restart |-> FALSE, export |-> FALSE,
      faults |-> TRUE, breaks |-> FALSE, legacy |-> FALSE,
      torn |-> FALSE, skews |-> {0},
      unreadable |-> TRUE ],
    \* editing, going idle and editing again
    [ name |-> "mixed", files |-> {FileA}, deltas |-> {1000, 300000},
      advances |-> MaxAdvances, edits |-> MaxEdits, notes |-> 0,
      debug |-> FALSE, panels |-> {}, restart |-> FALSE, export |-> FALSE,
      faults |-> FALSE, breaks |-> FALSE, legacy |-> FALSE,
      torn |-> FALSE, skews |-> {0},
      unreadable |-> FALSE ] }

-----------------------------------------------------------------------------
(* State.                                                                  *)

VARIABLES
  scope,               \* what the environment does in this behaviour
  readable,            \* whether a read of the file at logPath succeeds now
  phase,               \* "stopped" (no process), "running" (activated), "deactivated"
  now,                 \* the wall clock, Date.now()
  advances,            \* how many times the clock has advanced (bounds the model)
  sessionStart,
  lastActivityTime,
  lastEditTime,
  debugStartTime,
  activeCodingTime,
  debuggingTime,
  idleTime,
  isIdle,
  fileStats,           \* Record<string, FileStats>: a function on a subset of Files
  folderStats,         \* Record<string, FolderStats>
  languageUsage,       \* Record<string, number>
  currentFocusedFile,
  focusStartTime,
  activeDashboardPanels, \* the panels, in the order they were opened
  visible,             \* panel.visible of every panel
  activityCheckDue,    \* activityCheckInterval: when it fires next, Null if unset
  dashboardUpdateInterval, \* whether the interval of startPeriodicUpdates is set
  disk,                \* the file at logPath
  inbox,               \* the last message the webview of every panel received
  broken,              \* the panels whose webview.postMessage throws
  lastNoteAdded,       \* the note that the last "Note added ..." message to the
                       \* user was about
  pendingExport,       \* exportData waiting for its save dialog: the document
                       \* it holds in `data`
  exportFile           \* the file at the path chosen in the save dialog

vars == <<scope, readable, phase, now, advances, sessionStart, lastActivityTime, lastEditTime,
          debugStartTime, activeCodingTime, debuggingTime, idleTime, isIdle,
          fileStats, folderStats, languageUsage, currentFocusedFile,
          focusStartTime, activeDashboardPanels, visible, activityCheckDue,
          dashboardUpdateInterval, disk, inbox, broken, lastNoteAdded,
          pendingExport, exportFile>>

\* The empty object {} of a Record<string, ...>.
EmptyMap == [k \in {} |-> 0]

\* The module-level variables the handlers below read and write, as one record.
Mem == [ sessionStart |-> sessionStart, lastActivityTime |-> lastActivityTime,
         lastEditTime |-> lastEditTime, debugStartTime |-> debugStartTime,
         activeCodingTime |-> activeCodingTime, debuggingTime |-> debuggingTime,
         idleTime |-> idleTime, isIdle |-> isIdle, fileStats |-> fileStats,
         folderStats |-> folderStats, languageUsage |-> languageUsage,
         currentFocusedFile |-> currentFocusedFile,
         focusStartTime |-> focusStartTime ]

\* The module-level initialisers (lines 34-49), evaluated at instant t.
InitialMem(t) ==
  [ sessionStart |-> t, lastActivityTime |-> t, lastEditTime |-> 0,
    debugStartTime |-> Null, activeCodingTime |-> 0, debuggingTime |-> 0,
    idleTime |-> 0, isIdle |-> FALSE, fileStats |-> EmptyMap,
    folderStats |-> EmptyMap, languageUsage |-> EmptyMap,
    currentFocusedFile |-> NoFile, focusStartTime |-> Null ]

\* The next state's module-level variables are those of record m.
Commit(m) ==
  /\ sessionStart' = m.sessionStart
  /\ lastActivityTime' = m.lastActivityTime
  /\ lastEditTime' = m.lastEditTime
  /\ debugStartTime' = m.debugStartTime
  /\ activeCodingTime' = m.activeCodingTime
  /\ debuggingTime' = m.debuggingTime
  /\ idleTime' = m.idleTime
  /\ isIdle' = m.isIdle
  /\ fileStats' = m.fileStats
  /\ folderStats' = m.folderStats
  /\ languageUsage' = m.languageUsage
  /\ currentFocusedFile' = m.currentFocusedFile
  /\ focusStartTime' = m.focusStartTime

\* obj[key] = value on a Record<string, ...>.
Put(map, key, value) == [k \in DOMAIN map \cup {key} |->
                           IF k = key THEN value ELSE map[k]]

-----------------------------------------------------------------------------
(* The helper functions of extension.ts, as functions of the module-level  *)
(* variables m and of the instant t that Date.now() returns.               *)

\* updateFolderStats(folderPath)
UpdateFolderStats(m, folderPath) ==
  LET created == IF folderPath \in DOMAIN m.folderStats
                 THEN m.folderStats
                 ELSE Put(m.folderStats, folderPath, [timeSpent |-> 0, files |-> 0])
      count == Cardinality({f \in DOMAIN m.fileStats :
                              m.fileStats[f].folderPath = folderPath})
  IN [m EXCEPT !.folderStats = [created EXCEPT ![folderPath].files = count]]

\* updateFolderTimeSpent with `=` for `+=`: the folder keeps the last span only.
UpdateFolderTimeSpent_Overwrites(m, folderPath, timeSpent) ==
  LET m1 == IF folderPath \in DOMAIN m.folderStats
            THEN m ELSE UpdateFolderStats(m, folderPath)
  IN [m1 EXCEPT !.folderStats[folderPath].timeSpent = timeSpent]

\* updateFolderTimeSpent(folderPath, timeSpent)
UpdateFolderTimeSpent(m, folderPath, timeSpent) ==
  LET m1 == IF folderPath \in DOMAIN m.folderStats
            THEN m ELSE UpdateFolderStats(m, folderPath)
  IN [m1 EXCEPT !.folderStats[folderPath].timeSpent = @ + timeSpent]

\* updateFileStats(filePath, language, folderPath)
UpdateFileStats(m, filePath, language, folderPath) ==
  LET created == IF filePath \in DOMAIN m.fileStats
                 THEN m.fileStats
                 ELSE Put(m.fileStats, filePath,
                          [language |-> language, timeSpent |-> 0, edits |-> 0,
                           folderPath |-> folderPath, notes |-> <<>>])
  IN [m EXCEPT !.fileStats = [created EXCEPT ![filePath].edits = @ + 1]]

\* CreditFocus without `if (lang)`: a file without extension is booked under
\* the empty language.
CreditFocus_NoLangGuard(m, timeSpent) ==
  LET file == m.currentFocusedFile
      lang == ExtSlice(file)
  IN IF file \in DOMAIN m.fileStats
     THEN LET m1 == [m EXCEPT !.fileStats[file].timeSpent = @ + timeSpent]
              m2 == UpdateFolderTimeSpent(m1, Dirname(file), timeSpent)
          IN [m2 EXCEPT !.languageUsage =
                Put(@, lang, (IF lang \in DOMAIN @ THEN @[lang] ELSE 0) + timeSpent)]
     ELSE m

\* The body of updateFileTimeSpent under `if (timeSpent < 5 * 60 * 1000)`:
\* credit the file, its folder and its language.
CreditFocus(m, timeSpent) ==
  LET file == m.currentFocusedFile
      lang == ExtSlice(file)
  IN IF file \in DOMAIN m.fileStats
     THEN LET m1 == [m EXCEPT !.fileStats[file].timeSpent = @ + timeSpent]
              m2 == UpdateFolderTimeSpent(m1, Dirname(file), timeSpent)
          IN IF lang # <<>>
             THEN [m2 EXCEPT !.languageUsage =
                     Put(@, lang, (IF lang \in DOMAIN @ THEN @[lang] ELSE 0) + timeSpent)]
             ELSE m2
     ELSE m

\* Whether `currentFocusedFile && focusStartTime` is truthy.
FocusOpen(m) == m.currentFocusedFile # NoFile /\ m.focusStartTime # Null
                /\ m.focusStartTime # 0

\* updateFileTimeSpent without `focusStartTime = now`: the next flush counts
\* the same span again.
UpdateFileTimeSpent_NoReset(m, t) ==
  IF FocusOpen(m)
  THEN LET timeSpent == t - m.focusStartTime
       IN IF timeSpent < StaleCeiling THEN CreditFocus(m, timeSpent) ELSE m
  ELSE m

\* updateFileTimeSpent with the ceiling compared by <= : a span of exactly
\* 5 min is credited.
UpdateFileTimeSpent_CeilingInclusive(m, t) ==
  IF FocusOpen(m)
  THEN LET timeSpent == t - m.focusStartTime
           m1 == IF timeSpent <= StaleCeiling THEN CreditFocus(m, timeSpent) ELSE m
       IN [m1 EXCEPT !.focusStartTime = t]
  ELSE m

\* updateFileTimeSpent()
UpdateFileTimeSpent(m, t) ==
  IF FocusOpen(m)
  THEN LET timeSpent == t - m.focusStartTime
           m1 == IF timeSpent < StaleCeiling THEN CreditFocus(m, timeSpent) ELSE m
       IN [m1 EXCEPT !.focusStartTime = t]
  ELSE m

\* An optional string field (sessionEnd?) that is absent.
Undefined == <<"undefined">>

\* The default object loadSessionData returns, and initializeSessionFile writes.
\* sessionEnd and totalSessionTime are optional and absent from it.
InitialData(start) ==
  [ sessionStart |-> ToISOString(start), sessionEnd |-> Undefined,
    totalSessionTime |-> Null, activeCodingTime |-> 0, debuggingTime |-> 0,
    idleTime |-> 0, fileActivity |-> EmptyMap, folderActivity |-> EmptyMap,
    languageUsage |-> EmptyMap, customNotes |-> <<>> ]

\* The file at logPath: absent, unparseable, or holding a document.
AbsentFile == [state |-> "absent", data |-> InitialData(0)]
CorruptFile == [state |-> "corrupt", data |-> InitialData(0)]
FileWith(data) == [state |-> "ok", data |-> data]

\* Whether the parsed document has the property customNotes, and
\* `data.customNotes || []`.
HasCustomNotes(data) == "customNotes" \in DOMAIN data
CustomNotesOrEmpty(data) == IF HasCustomNotes(data) THEN data.customNotes ELSE <<>>

\* The migration loop of loadSessionData: a file record without notes gets
\* notes: [].
MigrateNotes(fileActivity) ==
  [f \in DOMAIN fileActivity |->
     IF "notes" \in DOMAIN fileActivity[f]
     THEN fileActivity[f]
     ELSE [ language |-> fileActivity[f].language,
            timeSpent |-> fileActivity[f].timeSpent,
            edits |-> fileActivity[f].edits,
            folderPath |-> fileActivity[f].folderPath,
            notes |-> <<>> ]]

\* loadSessionData() that parses whatever is at logPath, with no default.
LoadSessionData_NoDefault(m, d) ==
  [d.data EXCEPT !.fileActivity = MigrateNotes(@)]

\* loadSessionData(): the parsed and migrated document, or the default object
\* when the file is absent or cannot be read (readFileSync throws although
\* the file is there and intact: ~readable) or parsed.
LoadSessionData(m, d) ==
  IF d.state = "ok" /\ readable
  THEN [d.data EXCEPT !.fileActivity = MigrateNotes(@)]
  ELSE InitialData(m.sessionStart)

\* saveSessionData that adds the notes of the document to those the file
\* already holds.
SaveSessionData_AppendsNotes(d, data, ok) ==
  IF ok
  THEN FileWith([data EXCEPT !.customNotes = CustomNotesOrEmpty(d.data) \o @])
  ELSE d

\* What an earlier run of the extension (this version, or one from before
\* file records had notes) may have left at logPath; PartialData is a document
\* from before sessions had notes: it has no customNotes property.
OldNote == FormatNote(0, <<"o">>)
LegacyRecord == [ language |-> <<"py">>, timeSpent |-> 1000, edits |-> 1,
                  folderPath |-> "/p" ]
NotedRecord == [ language |-> <<"py">>, timeSpent |-> 1000, edits |-> 1,
                 folderPath |-> "/p", notes |-> <<OldNote>> ]
PartialData ==
  LET full == [InitialData(0) EXCEPT !.fileActivity = Put(EmptyMap, FileA, LegacyRecord)]
  IN [k \in DOMAIN full \ {"customNotes"} |-> full[k]]
StoredFiles ==
  {AbsentFile, CorruptFile, FileWith(PartialData)}
  \cup { FileWith([InitialData(0) EXCEPT !.fileActivity = fileActivity,
                                         !.customNotes = customNotes]) :
           fileActivity \in {EmptyMap, Put(EmptyMap, FileA, LegacyRecord),
                             Put(EmptyMap, FileA, NotedRecord)},
           customNotes \in {<<>>, <<OldNote>>} }

\* saveSessionData(data): writeFileSync(logPath, ...) inside try/catch; a
\* failed write (ok = FALSE) is logged.  writeFileSync opens logPath itself
\* for writing, which truncates it, and then writes: a write that fails
\* before the open leaves the file as it was, and one that fails after it
\* (scope.torn: the disk is full, the process is stopped) leaves the file
\* empty or cut short, which no parse accepts.
SaveSessionData(d, data, ok) ==
  IF ok THEN FileWith(data) ELSE IF scope.torn THEN CorruptFile ELSE d

\* getCurrentSessionData() that does not read the notes back from logPath.
GetCurrentSessionData_NoNotes(m, d, t) ==
  LET m1 == UpdateFileTimeSpent(m, t)
  IN [ mem |-> m1,
       data |-> [ sessionStart |-> ToISOString(m1.sessionStart),
                  sessionEnd |-> ToISOString(t),
                  totalSessionTime |-> t - m1.sessionStart,
                  activeCodingTime |-> m1.activeCodingTime,
                  debuggingTime |-> m1.debuggingTime,
                  idleTime |-> m1.idleTime,
                  fileActivity |-> m1.fileStats,
                  folderActivity |-> m1.folderStats,
                  languageUsage |-> m1.languageUsage,
                  customNotes |-> <<>> ] ]

\* getCurrentSessionData(): the flushed variables and the snapshot.
GetCurrentSessionData(m, d, t) ==
  LET m1 == UpdateFileTimeSpent(m, t)
      existingData == LoadSessionData(m1, d)
  IN [ mem |-> m1,
       data |-> [ sessionStart |-> ToISOString(m1.sessionStart),
                  sessionEnd |-> ToISOString(t),
                  totalSessionTime |-> t - m1.sessionStart,
                  activeCodingTime |-> m1.activeCodingTime,
                  debuggingTime |-> m1.debuggingTime,
                  idleTime |-> m1.idleTime,
                  fileActivity |-> m1.fileStats,
                  folderActivity |-> m1.folderStats,
                  languageUsage |-> m1.languageUsage,
                  customNotes |-> CustomNotesOrEmpty(existingData) ] ]

\* saveSessionFile(): the flushed variables and the file written.
SaveSessionFile(m, d, t, ok) ==
  LET cur == GetCurrentSessionData(m, d, t)
  IN [mem |-> cur.mem, disk |-> SaveSessionData(d, cur.data, ok)]

\* broadcastToDashboards(): sendSessionDataToPanel computes the snapshot, and
\* so flushes the focus cursor, once for every visible panel.
BroadcastToDashboards(m, t, panels, vis) ==
  IF \E i \in 1..Len(panels) : vis[panels[i]]
  THEN UpdateFileTimeSpent(m, t)
  ELSE m

\* Panel p is in the list of active panels.
Listed(panels, p) == \E i \in 1..Len(panels) : panels[i] = p

\* What sendSessionDataToPanel posts: {type: "update", data: currentData}.
UpdateMessage(m, d, t) ==
  [type |-> "update", data |-> GetCurrentSessionData(m, d, t).data]

\* A webview that has received nothing.
NoMessage == [type |-> "none", data |-> InitialData(0)]

\* The forEach of broadcastToDashboards when an exception of postMessage
\* leaves it: the panels listed after the one that failed get nothing.
Deliver_StopsAtFailure(m, d, t, panels, vis, brk, inb) ==
  [p \in DOMAIN inb |->
     IF /\ Listed(panels, p) /\ vis[p] /\ p \notin brk
        /\ \A i \in 1..Len(panels) :
             vis[panels[i]] /\ panels[i] \in brk =>
               \E j \in 1..(i - 1) : panels[j] = p
     THEN UpdateMessage(m, d, t)
     ELSE inb[p]]

\* broadcastToDashboards that posts to the hidden panels too.
Deliver_ToHidden(m, d, t, panels, vis, brk, inb) ==
  [p \in DOMAIN inb |->
     IF Listed(panels, p) /\ p \notin brk
     THEN UpdateMessage(m, d, t)
     ELSE inb[p]]

\* broadcastToDashboards(), as the webviews see it: every listed panel that
\* is visible is posted the snapshot; a postMessage that throws is caught
\* inside sendSessionDataToPanel and the forEach goes on.
Deliver(m, d, t, panels, vis, brk, inb) ==
  [p \in DOMAIN inb |->
     IF Listed(panels, p) /\ vis[p] /\ p \notin brk
     THEN UpdateMessage(m, d, t)
     ELSE inb[p]]

\* One broadcastToDashboards() whose forEach starts at instant t while the
\* clock advances by skew from each panel served to the next: every
\* sendSessionDataToPanel calls getCurrentSessionData, which reads Date.now()
\* itself.  ServedBefore is the number of visible panels the forEach has served
\* before position i, SnapshotInstant the reading of the clock for the panel at
\* position i, FlushedUpTo the variables once the panels at positions 1..i are
\* served.
ServedBefore(panels, vis, i) == Cardinality({j \in 1..(i - 1) : vis[panels[j]]})
SnapshotInstant(t, skew, panels, vis, i) == t + skew * ServedBefore(panels, vis, i)
RECURSIVE FlushedUpTo(_, _, _, _, _, _)
FlushedUpTo(m, t, skew, panels, vis, i) ==
  IF i = 0
  THEN m
  ELSE LET before == FlushedUpTo(m, t, skew, panels, vis, i - 1)
       IN IF vis[panels[i]]
          THEN UpdateFileTimeSpent(before, SnapshotInstant(t, skew, panels, vis, i))
          ELSE before

\* Deliver when the clock advances by skew between the panels.
DeliverAt(m, d, t, skew, panels, vis, brk, inb) ==
  [p \in DOMAIN inb |->
     IF Listed(panels, p) /\ vis[p] /\ p \notin brk
     THEN LET i == CHOOSE j \in 1..Len(panels) : panels[j] = p
          IN UpdateMessage(FlushedUpTo(m, t, skew, panels, vis, i - 1), d,
                           SnapshotInstant(t, skew, panels, vis, i))
     ELSE inb[p]]

-----------------------------------------------------------------------------
(* Initial state: no extension process yet; no file at logPath, or what an *)
(* earlier run left there.                                                 *)

NoPanels == [p \in Panels |-> FALSE]

\* No exportData is waiting for its save dialog.
NoExport == [open |-> FALSE, data |-> InitialData(0)]
NoInbox == [p \in Panels |-> NoMessage]

Init ==
  /\ scope \in Scopes
  /\ readable = TRUE
  /\ phase = "stopped"
  /\ now = Epoch
  /\ advances = 0
  /\ sessionStart = 0
  /\ lastActivityTime = 0
  /\ lastEditTime = 0
  /\ debugStartTime = Null
  /\ activeCodingTime = 0
  /\ debuggingTime = 0
  /\ idleTime = 0
  /\ isIdle = FALSE
  /\ fileStats = EmptyMap
  /\ folderStats = EmptyMap
  /\ languageUsage = EmptyMap
  /\ currentFocusedFile = NoFile
  /\ focusStartTime = Null
  /\ activeDashboardPanels = <<>>
  /\ visible = NoPanels
  /\ activityCheckDue = Null
  /\ dashboardUpdateInterval = FALSE
  /\ disk \in (IF scope.legacy THEN StoredFiles ELSE {AbsentFile})
  /\ inbox = NoInbox
  /\ broken = {}
  /\ lastNoteAdded = Undefined
  /\ pendingExport = NoExport
  /\ exportFile = AbsentFile

-----------------------------------------------------------------------------
(* The environment: the clock, the process's life, the panels' visibility. *)

\* The wall clock advances by d.
Advance(d) ==
  /\ phase = "running"
  /\ advances < scope.advances
  /\ now' = now + d
  /\ advances' = advances + 1
  /\ UNCHANGED <<scope, readable, phase, sessionStart, lastActivityTime, lastEditTime,
                 debugStartTime, activeCodingTime, debuggingTime, idleTime,
                 isIdle, fileStats, folderStats, languageUsage,
                 currentFocusedFile, focusStartTime, activeDashboardPanels,
                 visible, activityCheckDue, dashboardUpdateInterval, disk,
                 inbox, broken, lastNoteAdded, pendingExport, exportFile>>

\* The extension host loads the module (its initialisers run) and calls
\* activate(): initializeSessionFile, then the two setInterval timers.
Activate(ok) ==
  /\ phase # "running"
  /\ scope.restart \/ sessionStart = 0    \* the first start, or a restart
  /\ phase' = "running"
  /\ Commit(InitialMem(now))
  /\ disk' = SaveSessionData(disk, InitialData(now), ok)
  /\ activityCheckDue' = now + ActivityCheckPeriod
  /\ dashboardUpdateInterval' = TRUE
  /\ activeDashboardPanels' = <<>>
  /\ visible' = NoPanels
  /\ inbox' = NoInbox
  /\ broken' = {}
  /\ lastNoteAdded' = Undefined
  /\ pendingExport' = NoExport
  /\ UNCHANGED <<scope, readable, now, advances, exportFile>>

\* The process is killed without deactivate(): its variables, timers and panels
\* are gone, the file at logPath stays.
Crash ==
  /\ phase = "running"
  /\ scope.restart
  /\ phase' = "stopped"
  /\ Commit(InitialMem(0))
  /\ activityCheckDue' = Null
  /\ dashboardUpdateInterval' = FALSE
  /\ activeDashboardPanels' = <<>>
  /\ visible' = NoPanels
  /\ inbox' = NoInbox
  /\ broken' = {}
  /\ lastNoteAdded' = Undefined
  /\ pendingExport' = NoExport
  /\ UNCHANGED <<scope, readable, now, advances, disk, exportFile>>

\* The panels that `activeDashboardPanels.forEach(panel => panel.dispose())`
\* disposes: dispose() fires onDidDispose, whose handler splices the panel
\* out of the array being walked, so the walk steps over the panel that takes
\* its place: the panels at the odd positions are disposed.
DisposedByForEach(panels) ==
  {panels[i] : i \in {j \in 1..Len(panels) : j % 2 = 1}}

\* deactivate() without its two clearInterval calls.
Deactivate_KeepsTimers(ok) ==
  /\ phase = "running"
  /\ scope.restart
  /\ LET saved == SaveSessionFile(UpdateFileTimeSpent(Mem, now), disk, now, ok)
     IN /\ Commit(saved.mem)
        /\ disk' = saved.disk
  /\ phase' = "deactivated"
  /\ UNCHANGED <<activityCheckDue, dashboardUpdateInterval>>
  /\ activeDashboardPanels' = <<>>
  /\ visible' = [p \in Panels |->
                   visible[p] /\ p \notin DisposedByForEach(activeDashboardPanels)]
  /\ inbox' = [p \in Panels |->
                 IF p \in DisposedByForEach(activeDashboardPanels)
                 THEN NoMessage ELSE inbox[p]]
  /\ UNCHANGED <<scope, readable, now, advances, broken, lastNoteAdded, pendingExport,
                 exportFile>>

\* deactivate(): flush, save, clear both intervals, dispose the panels and
\* drop the list.
Deactivate(ok) ==
  /\ phase = "running"
  /\ scope.restart
  /\ LET saved == SaveSessionFile(UpdateFileTimeSpent(Mem, now), disk, now, ok)
     IN /\ Commit(saved.mem)
        /\ disk' = saved.disk
  /\ phase' = "deactivated"
  /\ activityCheckDue' = Null
  /\ dashboardUpdateInterval' = FALSE
  /\ activeDashboardPanels' = <<>>
  /\ visible' = [p \in Panels |->
                   visible[p] /\ p \notin DisposedByForEach(activeDashboardPanels)]
  /\ inbox' = [p \in Panels |->
                 IF p \in DisposedByForEach(activeDashboardPanels)
                 THEN NoMessage ELSE inbox[p]]
  /\ UNCHANGED <<scope, readable, now, advances, broken, lastNoteAdded, pendingExport,
                 exportFile>>

\* The user hides or reveals a panel (panel.visible changes).
SetVisible(p, b) ==
  /\ phase = "running"
  /\ \E i \in 1..Len(activeDashboardPanels) : activeDashboardPanels[i] = p
  /\ visible[p] # b
  /\ visible' = [visible EXCEPT ![p] = b]
  /\ UNCHANGED <<scope, readable, phase, now, advances, sessionStart, lastActivityTime,
                 lastEditTime, debugStartTime, activeCodingTime, debuggingTime,
                 idleTime, isIdle, fileStats, folderStats, languageUsage,
                 currentFocusedFile, focusStartTime, activeDashboardPanels,
                 activityCheckDue, dashboardUpdateInterval, disk, inbox,
                 broken, lastNoteAdded, pendingExport, exportFile>>

\* Reads of the file at logPath start, or stop, failing (the file is locked
\* by another program, its permissions change); the file stays as it is.
SetReadable(b) ==
  /\ scope.unreadable
  /\ readable # b
  /\ readable' = b
  /\ UNCHANGED <<scope, phase, now, advances, sessionStart, lastActivityTime,
                 lastEditTime, debugStartTime, activeCodingTime, debuggingTime,
                 idleTime, isIdle, fileStats, folderStats, languageUsage,
                 currentFocusedFile, focusStartTime, activeDashboardPanels,
                 visible, activityCheckDue, dashboardUpdateInterval, disk,
                 inbox, broken, lastNoteAdded, pendingExport, exportFile>>

\* The webview of a panel starts, or stops, throwing on postMessage.
SetBroken(p, b) ==
  /\ phase = "running"
  /\ scope.breaks
  /\ Listed(activeDashboardPanels, p)
  /\ (p \in broken) # b
  /\ broken' = IF b THEN broken \cup {p} ELSE broken \ {p}
  /\ UNCHANGED <<scope, readable, phase, now, advances, sessionStart, lastActivityTime,
                 lastEditTime, debugStartTime, activeCodingTime, debuggingTime,
                 idleTime, isIdle, fileStats, folderStats, languageUsage,
                 currentFocusedFile, focusStartTime, activeDashboardPanels,
                 visible, activityCheckDue, dashboardUpdateInterval, disk,
                 inbox, lastNoteAdded, pendingExport, exportFile>>

RECURSIVE SumOver(_, _)
SumOver(map, S) ==
  IF S = {} THEN 0
  ELSE LET k == CHOOSE x \in S : TRUE IN map[k] + SumOver(map, S \ {k})

\* The bounds of the model: the edits counted and the notes stored so far.
EditsSoFar == SumOver([f \in DOMAIN fileStats |-> fileStats[f].edits],
                      DOMAIN fileStats)
NotesSoFar == Len(CustomNotesOrEmpty(disk.data))
              + SumOver([f \in DOMAIN fileStats |-> Len(fileStats[f].notes)],
                        DOMAIN fileStats)

\* Handlers leave the clock, the process and the timers as they are.
Frame == UNCHANGED <<scope, readable, phase, now, advances, activityCheckDue,
                   dashboardUpdateInterval>>
FramePanels == UNCHANGED <<activeDashboardPanels, visible, broken>>
FrameNotes == UNCHANGED lastNoteAdded
FrameExport == UNCHANGED <<pendingExport, exportFile>>

\* The webviews after a broadcastToDashboards() that finds the variables m
\* and the file d.
Broadcast(m, d) ==
  Deliver(m, d, now, activeDashboardPanels, visible, broken, inbox)

-----------------------------------------------------------------------------
(* The event handlers registered by activate().                            *)

\* TrackEdit without the cap: every gap between two edits is credited.
TrackEdit_NoCap(m, t) ==
  [m EXCEPT !.activeCodingTime = IF m.lastEditTime > 0
                                 THEN @ + (t - m.lastEditTime) ELSE @,
            !.lastEditTime = t]

\* TrackEdit with the cap compared by <= : a gap of exactly 30 s is credited.
TrackEdit_CapInclusive(m, t) ==
  LET m1 == IF m.lastEditTime > 0 /\ t - m.lastEditTime <= EditGapCap
            THEN [m EXCEPT !.activeCodingTime = @ + (t - m.lastEditTime)]
            ELSE m
  IN [m1 EXCEPT !.lastEditTime = t]

\* The edit handler's update of activeCodingTime and lastEditTime (lines 75-79).
TrackEdit(m, t) ==
  LET m1 == IF m.lastEditTime > 0 /\ t - m.lastEditTime < EditGapCap
            THEN [m EXCEPT !.activeCodingTime = @ + (t - m.lastEditTime)]
            ELSE m
  IN [m1 EXCEPT !.lastEditTime = t]

\* OnEdit that also books the gap since the previous edit on the edited file.
OnEdit_CreditsFile(m, file, t) ==
  LET m1 == [m EXCEPT !.isIdle = FALSE, !.lastActivityTime = t]
      m2 == TrackEdit(m1, t)
      m3 == UpdateFileStats(m2, file, ExtSlice(file), Dirname(file))
      m4 == [m3 EXCEPT !.fileStats[file].timeSpent =
                          @ + (m2.activeCodingTime - m.activeCodingTime)]
  IN UpdateFolderStats(m4, Dirname(file))

\* onDidChangeTextDocument, up to the broadcast.
OnEdit(m, file, t) ==
  LET m1 == [m EXCEPT !.isIdle = FALSE, !.lastActivityTime = t]
      m2 == TrackEdit(m1, t)
      m3 == UpdateFileStats(m2, file, ExtSlice(file), Dirname(file))
  IN UpdateFolderStats(m3, Dirname(file))

\* onDidChangeTextDocument without its broadcastToDashboards().
Edit_NoBroadcast(file) ==
  /\ phase = "running"
  /\ EditsSoFar < scope.edits
  /\ Commit(OnEdit(Mem, file, now))
  /\ Frame /\ FramePanels /\ FrameNotes /\ FrameExport /\ UNCHANGED <<disk, inbox>>

\* onDidChangeTextDocument
Edit(file) ==
  /\ phase = "running"
  /\ EditsSoFar < scope.edits
  /\ Commit(BroadcastToDashboards(OnEdit(Mem, file, now), now,
                                  activeDashboardPanels, visible))
  /\ inbox' = Broadcast(OnEdit(Mem, file, now), disk)
  /\ Frame /\ FramePanels /\ FrameNotes /\ FrameExport /\ UNCHANGED disk

\* OnFocus without the flush of the previous file: the new file inherits the
\* span the previous one was in view.
OnFocus_NoFlush(m, file, t) ==
  LET m1 == [m EXCEPT !.lastActivityTime = t]
  IN IF file # NoFile
     THEN LET lang == ExtSlice(file)
              m2 == [m1 EXCEPT !.currentFocusedFile = file,
                               !.focusStartTime = IF FocusOpen(m) THEN @ ELSE t]
              m3 == IF lang # <<>> /\ lang \notin DOMAIN m2.languageUsage
                    THEN [m2 EXCEPT !.languageUsage = Put(@, lang, 0)]
                    ELSE m2
              m4 == UpdateFileStats(m3, file, lang, Dirname(file))
          IN UpdateFolderStats(m4, Dirname(file))
     ELSE [m1 EXCEPT !.currentFocusedFile = NoFile, !.focusStartTime = Null]

\* OnFocus whose branch for no editor clears the file and keeps the start.
OnFocus_KeepsStartOnBlur(m, file, t) ==
  LET m1 == UpdateFileTimeSpent([m EXCEPT !.lastActivityTime = t], t)
  IN IF file # NoFile
     THEN LET lang == ExtSlice(file)
              m2 == [m1 EXCEPT !.currentFocusedFile = file, !.focusStartTime = t]
              m3 == IF lang # <<>> /\ lang \notin DOMAIN m2.languageUsage
                    THEN [m2 EXCEPT !.languageUsage = Put(@, lang, 0)]
                    ELSE m2
              m4 == UpdateFileStats(m3, file, lang, Dirname(file))
          IN UpdateFolderStats(m4, Dirname(file))
     ELSE [m1 EXCEPT !.currentFocusedFile = NoFile]

\* onDidChangeActiveTextEditor, up to the broadcast; file = NoFile when the
\* editor is undefined.
OnFocus(m, file, t) ==
  LET m1 == UpdateFileTimeSpent([m EXCEPT !.lastActivityTime = t], t)
  IN IF file # NoFile
     THEN LET lang == ExtSlice(file)
              m2 == [m1 EXCEPT !.currentFocusedFile = file, !.focusStartTime = t]
              m3 == IF lang # <<>> /\ lang \notin DOMAIN m2.languageUsage
                    THEN [m2 EXCEPT !.languageUsage = Put(@, lang, 0)]
                    ELSE m2
              m4 == UpdateFileStats(m3, file, lang, Dirname(file))
          IN UpdateFolderStats(m4, Dirname(file))
     ELSE [m1 EXCEPT !.currentFocusedFile = NoFile, !.focusStartTime = Null]

\* onDidChangeActiveTextEditor
FocusChange(file) ==
  /\ phase = "running"
  /\ file # NoFile => EditsSoFar < scope.edits
  /\ Commit(BroadcastToDashboards(OnFocus(Mem, file, now), now,
                                  activeDashboardPanels, visible))
  /\ inbox' = Broadcast(OnFocus(Mem, file, now), disk)
  /\ Frame /\ FramePanels /\ FrameNotes /\ FrameExport /\ UNCHANGED disk

\* OnDebugStart that keeps the start instant of a session already open.
OnDebugStart_KeepsOpenStart(m, t) ==
  [m EXCEPT !.debugStartTime = IF @ # Null THEN @ ELSE t,
            !.lastActivityTime = t, !.isIdle = FALSE]

\* onDidStartDebugSession, up to the broadcast.
OnDebugStart(m, t) ==
  [m EXCEPT !.debugStartTime = t, !.lastActivityTime = t, !.isIdle = FALSE]

\* onDidStartDebugSession
DebugStart ==
  /\ phase = "running"
  /\ scope.debug
  /\ Commit(BroadcastToDashboards(OnDebugStart(Mem, now), now,
                                  activeDashboardPanels, visible))
  /\ inbox' = Broadcast(OnDebugStart(Mem, now), disk)
  /\ Frame /\ FramePanels /\ FrameNotes /\ FrameExport /\ UNCHANGED disk

\* OnDebugEnd with `=` in place of `+=`: the length of the last debug session
\* replaces the total.
OnDebugEnd_Overwrites(m, t) ==
  [m EXCEPT !.debuggingTime = t - m.debugStartTime,
            !.lastActivityTime = t, !.debugStartTime = Null]

\* onDidTerminateDebugSession: the body of `if (debugStartTime !== null)`,
\* up to the broadcast.
OnDebugEnd(m, t) ==
  [m EXCEPT !.debuggingTime = @ + (t - m.debugStartTime),
            !.lastActivityTime = t, !.debugStartTime = Null]

\* HandleDebugEnd without `if (debugStartTime !== null)`.
HandleDebugEnd_NoGuard(m, t, panels, vis) ==
  BroadcastToDashboards(OnDebugEnd(m, t), t, panels, vis)

\* onDidTerminateDebugSession: nothing at all happens, not even the broadcast,
\* when no debug session was started.
HandleDebugEnd(m, t, panels, vis) ==
  IF m.debugStartTime # Null
  THEN BroadcastToDashboards(OnDebugEnd(m, t), t, panels, vis)
  ELSE m

\* onDidTerminateDebugSession
DebugEnd ==
  /\ phase = "running"
  /\ scope.debug
  /\ Commit(HandleDebugEnd(Mem, now, activeDashboardPanels, visible))
  /\ inbox' = IF debugStartTime # Null
              THEN Broadcast(OnDebugEnd(Mem, now), disk)
              ELSE inbox
  /\ Frame /\ FramePanels /\ FrameNotes /\ FrameExport /\ UNCHANGED disk

-----------------------------------------------------------------------------
(* The commands.                                                           *)

\* `note && note.trim()`: the input box was not cancelled and the text is not
\* blank.
\* NoteGiven without `note.trim()`: a text of blanks counts as a note.
NoteGiven_AcceptsBlank(input) == input.given /\ input.text # <<>>

NoteGiven(input) == input.given /\ input.text # <<>> /\ Trim(input.text) # <<>>

\* codeSessionTracker.addNote: the note is pushed onto the document loaded
\* from the file, that document is written back, and the user is shown
\* "Note added to session log" whether or not the write succeeded.  When the
\* loaded document has no customNotes, the push throws and the catch shows
\* "Failed to add note": nothing is written or posted.
AddNote(input, ok) ==
  /\ phase = "running"
  /\ IF NoteGiven(input) /\ HasCustomNotes(LoadSessionData(Mem, disk))
     THEN LET data == LoadSessionData(Mem, disk)
              noted == [data EXCEPT !.customNotes =
                          Append(@, FormatNote(now, input.text))]
          IN /\ NotesSoFar < scope.notes
             /\ disk' = SaveSessionData(disk, noted, ok)
             /\ Commit(BroadcastToDashboards(Mem, now, activeDashboardPanels,
                                             visible))
             /\ lastNoteAdded' = FormatNote(now, input.text)
             /\ inbox' = Broadcast(Mem, SaveSessionData(disk, noted, ok))
     ELSE /\ Commit(Mem)
          /\ UNCHANGED <<disk, inbox, lastNoteAdded>>
  /\ Frame /\ FramePanels /\ FrameExport

\* codeSessionTracker.addFileNote, up to saveSessionFile.
OnFileNote(m, filePath, text, t) ==
  LET m1 == IF filePath \in DOMAIN m.fileStats
            THEN m
            ELSE UpdateFileStats(m, filePath, ExtSlice(filePath), Dirname(filePath))
  IN [m1 EXCEPT !.fileStats[filePath].notes = Append(@, FormatNote(t, text))]

\* codeSessionTracker.addFileNote
AddFileNote(filePath, input, ok) ==
  /\ phase = "running"
  /\ IF NoteGiven(input)
     THEN LET saved == SaveSessionFile(OnFileNote(Mem, filePath, input.text, now),
                                       disk, now, ok)
          IN /\ NotesSoFar < scope.notes
             /\ filePath \notin DOMAIN fileStats => EditsSoFar < scope.edits
             /\ disk' = saved.disk
             /\ Commit(BroadcastToDashboards(saved.mem, now,
                                             activeDashboardPanels, visible))
             /\ lastNoteAdded' = FormatNote(now, input.text)
             /\ inbox' = Broadcast(saved.mem, saved.disk)
     ELSE /\ Commit(Mem)
          /\ UNCHANGED <<disk, inbox, lastNoteAdded>>
  /\ Frame /\ FramePanels /\ FrameExport

\* codeSessionTracker.showDashboard: the new panel is pushed onto the list
\* and sendSessionDataToPanel computes a snapshot (flushing the cursor) and
\* posts it to the panel.
ShowDashboard(p) ==
  /\ phase = "running"
  /\ \A i \in 1..Len(activeDashboardPanels) : activeDashboardPanels[i] # p
  /\ activeDashboardPanels' = Append(activeDashboardPanels, p)
  /\ visible' = [visible EXCEPT ![p] = TRUE]
  /\ Commit(GetCurrentSessionData(Mem, disk, now).mem)
  /\ inbox' = [inbox EXCEPT ![p] = UpdateMessage(Mem, disk, now)]
  /\ Frame /\ FrameNotes /\ FrameExport /\ UNCHANGED <<disk, broken>>

\* DisposePanel whose onDidDispose handler leaves the panel in the list.
DisposePanel_NoSplice(p) ==
  /\ phase = "running"
  /\ \E i \in 1..Len(activeDashboardPanels) : activeDashboardPanels[i] = p
  /\ visible' = [visible EXCEPT ![p] = FALSE]
  /\ inbox' = [inbox EXCEPT ![p] = NoMessage]
  /\ broken' = broken \ {p}
  /\ Commit(Mem)
  /\ Frame /\ FrameNotes /\ FrameExport /\ UNCHANGED <<disk, activeDashboardPanels>>

\* The user closes a panel; panel.onDidDispose: the panel is spliced out of
\* the list.
DisposePanel(p) ==
  /\ phase = "running"
  /\ \E i \in 1..Len(activeDashboardPanels) : activeDashboardPanels[i] = p
  /\ activeDashboardPanels' = SelectSeq(activeDashboardPanels, LAMBDA q : q # p)
  /\ visible' = [visible EXCEPT ![p] = FALSE]
  /\ inbox' = [inbox EXCEPT ![p] = NoMessage]
  /\ broken' = broken \ {p}
  /\ Commit(Mem)
  /\ Frame /\ FrameNotes /\ FrameExport /\ UNCHANGED disk

\* codeSessionTracker.exportData, up to the save dialog: saveSessionFile(),
\* then `data = loadSessionData()`, what the file at logPath holds.  (The
\* model has one save dialog open at a time.)
ExportData(ok) ==
  /\ phase = "running"
  /\ scope.export
  /\ ~pendingExport.open
  /\ LET saved == SaveSessionFile(Mem, disk, now, ok)
     IN /\ Commit(saved.mem)
        /\ disk' = saved.disk
        /\ pendingExport' = [open |-> TRUE,
                             data |-> LoadSessionData(saved.mem, saved.disk)]
  /\ Frame /\ FramePanels /\ FrameNotes /\ UNCHANGED <<inbox, exportFile>>

\* codeSessionTracker.exportData, after `await showSaveDialog`: when the user
\* chose a path, `data` is written to it (writeFileSync, not in a try: a
\* write that fails, ok = FALSE, rejects the command and leaves the file).
ExportChosen(chosen, ok) ==
  /\ phase = "running"
  /\ pendingExport.open
  /\ pendingExport' = NoExport
  /\ exportFile' = IF chosen /\ ok THEN FileWith(pendingExport.data) ELSE exportFile
  /\ Commit(Mem)
  /\ Frame /\ FramePanels /\ FrameNotes /\ UNCHANGED <<disk, inbox>>

-----------------------------------------------------------------------------
(* The timers.                                                             *)

\* CheckIdle with the timeout compared by >= : idle at exactly 3 min.
CheckIdle_TimeoutInclusive(m, t) ==
  IF ~m.isIdle /\ t - m.lastActivityTime >= idleTimeout
  THEN LET additionalIdleTime == (t - m.lastActivityTime) - idleTimeout
       IN [m EXCEPT !.isIdle = TRUE,
                    !.idleTime = IF additionalIdleTime > 0
                                 THEN @ + additionalIdleTime ELSE @]
  ELSE IF m.isIdle
       THEN [m EXCEPT !.idleTime = @ + IdleTickCredit]
       ELSE m

\* The idle check of startActivityChecking (lines 323-333).
CheckIdle(m, t) ==
  IF ~m.isIdle /\ t - m.lastActivityTime > idleTimeout
  THEN LET additionalIdleTime == (t - m.lastActivityTime) - idleTimeout
       IN [m EXCEPT !.isIdle = TRUE,
                    !.idleTime = IF additionalIdleTime > 0
                                 THEN @ + additionalIdleTime ELSE @]
  ELSE IF m.isIdle
       THEN [m EXCEPT !.idleTime = @ + IdleTickCredit]
       ELSE m

\* The callback of startActivityChecking, every 60 s: idle check, flush,
\* save, broadcast.
ActivityCheck(ok) ==
  /\ activityCheckDue # Null
  /\ now >= activityCheckDue
  /\ activityCheckDue' = now + ActivityCheckPeriod
  /\ LET saved == SaveSessionFile(UpdateFileTimeSpent(CheckIdle(Mem, now), now),
                                   disk, now, ok)
     IN /\ disk' = saved.disk
        /\ Commit(BroadcastToDashboards(saved.mem, now, activeDashboardPanels,
                                        visible))
        /\ inbox' = Broadcast(saved.mem, saved.disk)
  /\ UNCHANGED <<scope, readable, phase, now, advances, dashboardUpdateInterval>>
  /\ FramePanels /\ FrameNotes /\ FrameExport

\* The callback of startPeriodicUpdates, every second: flush, broadcast.  Every
\* clock step of the model is at least DashboardUpdatePeriod long, so the
\* callback can run at every instant the model visits; running it twice at
\* one instant changes nothing.  The clock may advance while the callback
\* runs (scope.skews): between the snapshots its broadcast computes for the
\* visible panels.  The handlers of the events are taken at one instant.
PeriodicUpdate ==
  /\ dashboardUpdateInterval
  /\ \E skew \in scope.skews :
       LET m == UpdateFileTimeSpent(Mem, now)
           last == Len(activeDashboardPanels)
       IN /\ Commit(FlushedUpTo(m, now, skew, activeDashboardPanels, visible, last))
          /\ inbox' = DeliverAt(m, disk, now, skew, activeDashboardPanels,
                                visible, broken, inbox)
          /\ now' = IF \E p \in Panels : Listed(activeDashboardPanels, p) /\ visible[p]
                    THEN SnapshotInstant(now, skew, activeDashboardPanels,
                                         visible, last + 1) - skew
                    ELSE now
          /\ now' # now => advances < scope.advances
          /\ advances' = IF now' # now THEN advances + 1 ELSE advances
  /\ UNCHANGED <<scope, readable, phase, activityCheckDue, dashboardUpdateInterval>>
  /\ FramePanels /\ FrameNotes /\ FrameExport /\ UNCHANGED disk

-----------------------------------------------------------------------------

\* Whether a write to logPath succeeds.
WriteOutcomes == IF scope.faults THEN BOOLEAN ELSE {TRUE}

Next ==
  \/ \E d \in scope.deltas \cap Deltas : Advance(d)
  \/ \E ok \in WriteOutcomes : Activate(ok)
  \/ Crash
  \/ \E ok \in WriteOutcomes : Deactivate(ok)
  \/ \E p \in scope.panels, b \in BOOLEAN : SetVisible(p, b)
  \/ \E p \in scope.panels, b \in BOOLEAN : SetBroken(p, b)
  \/ \E b \in BOOLEAN : SetReadable(b)
  \/ \E file \in scope.files : Edit(file)
  \/ \E file \in scope.files \cup {NoFile} : FocusChange(file)
  \/ DebugStart
  \/ DebugEnd
  \/ \E input \in NoteInputs, ok \in WriteOutcomes : AddNote(input, ok)
  \/ \E file \in scope.files, input \in NoteInputs, ok \in WriteOutcomes :
       AddFileNote(file, input, ok)
  \/ \E p \in scope.panels : ShowDashboard(p)
  \/ \E p \in scope.panels : DisposePanel(p)
  \/ \E ok \in WriteOutcomes : ExportData(ok)
  \/ \E chosen \in BOOLEAN, ok \in WriteOutcomes : ExportChosen(chosen, ok)
  \/ \E ok \in WriteOutcomes : ActivityCheck(ok)
  \/ PeriodicUpdate

Spec == Init /\ [][Next]_vars

-----------------------------------------------------------------------------
(* Properties.                                                             *)

\* A step taken by a running process that stays running (a handler, a timer
\* callback or a clock step; not a start or a stop of the process).
RunningStep == phase = "running" /\ phase' = "running"

\* The session notes the file at logPath holds.
DiskNotes == IF disk.state = "ok" THEN CustomNotesOrEmpty(disk.data) ELSE <<>>

\* Sequence s is a prefix of sequence t.
IsPrefix(s, t) == Len(s) <= Len(t) /\ SubSeq(t, 1, Len(s)) = s

Edits(file) == IF file \in DOMAIN fileStats THEN fileStats[file].edits ELSE 0

\* C1: the session notes that the file at logPath holds are still there, in
\* order, after every step that leaves a process running: in particular after
\* the activation of a successor process, and after each of its handlers.
C1_NotesSurviveRestart ==
  [][phase' = "running" => IsPrefix(DiskNotes, DiskNotes')]_vars

\* C2: a file's edits counter goes up by one on every edit of that file and is
\* changed by no other step of the running process.
C2_EditCountCountsEdits ==
  [][RunningStep =>
       \A file \in Files :
         Edits(file)' = Edits(file) + (IF Edit(file) THEN 1 ELSE 0)]_vars

\* C3: an edit adds the gap since the previous edit to activeCodingTime when
\* there was a previous edit and the gap is strictly below 30 s, adds nothing
\* otherwise, and sets lastEditTime to the instant of the edit in every case;
\* no other step of the running process changes either.
C3_ActiveCodingTime ==
  [][RunningStep =>
       IF \E file \in Files : Edit(file)
       THEN /\ activeCodingTime' = activeCodingTime
                 + (IF lastEditTime > 0 /\ now - lastEditTime < 30000
                    THEN now - lastEditTime ELSE 0)
            /\ lastEditTime' = now
       ELSE UNCHANGED <<activeCodingTime, lastEditTime>>]_vars

\* C3 witness: three edits, 1 s and then 30 s apart: only the 1 s gap counts.
C3_Witness ==
  /\ phase = "running"
  /\ EditsSoFar = 3
  /\ lastEditTime = sessionStart + 31000
  /\ activeCodingTime = 1000

\* C4: an idle check in the Active state credits nothing while the gap since
\* lastActivityTime is at most the 3 min timeout; the first one at which the
\* gap exceeds the timeout moves to Idle and credits the gap less the timeout;
\* every idle check in the Idle state credits 60 s and stays Idle.  The idle
\* check leaves lastActivityTime alone.
C4_IdleAccrual ==
  [][(\E ok \in BOOLEAN : ActivityCheck(ok)) =>
       LET gap == now - lastActivityTime
       IN /\ lastActivityTime' = lastActivityTime
          /\ IF isIdle
             THEN isIdle' /\ idleTime' = idleTime + 60000
             ELSE IF gap > 180000
                  THEN isIdle' /\ idleTime' = idleTime + (gap - 180000)
                  ELSE ~isIdle' /\ idleTime' = idleTime]_vars

\* C4 witness: no activity since the start; the idle check 5 min in credited
\* the 2 min beyond the timeout, the next one 60 s more.
C4_Witness ==
  /\ phase = "running"
  /\ lastActivityTime = sessionStart
  /\ isIdle
  /\ idleTime = 120000 + 60000

\* C5: an edit, a focus change and a debug start each leave the state machine
\* Active; an idle check in the Active state with the gap within the timeout
\* adds nothing; idleTime is never reduced.
C5_ActivityEndsIdle ==
  [][RunningStep =>
       /\ ( \/ \E file \in Files : Edit(file)
            \/ \E file \in Files \cup {NoFile} : FocusChange(file)
            \/ DebugStart ) => ~isIdle'
       /\ ( /\ \E ok \in BOOLEAN : ActivityCheck(ok)
            /\ ~isIdle
            /\ now - lastActivityTime <= 180000 ) => idleTime' = idleTime
       /\ idleTime' >= idleTime]_vars

\* The time credited to a file, a folder, a language so far (0 without a record).
FileTime(file) ==
  IF file \in DOMAIN fileStats THEN fileStats[file].timeSpent ELSE 0
FolderTime(folderPath) ==
  IF folderPath \in DOMAIN folderStats THEN folderStats[folderPath].timeSpent ELSE 0
LangTime(lang) ==
  IF lang \in DOMAIN languageUsage THEN languageUsage[lang] ELSE 0

\* The focus cursor is open.
CursorOpen == FocusOpen(Mem)

\* The span since the last flush, while the cursor is open.
Pending == IF CursorOpen THEN now - focusStartTime ELSE 0

\* The part of Pending that is due to a file, a folder, a language.
PendingFile(file) == IF currentFocusedFile = file THEN Pending ELSE 0
PendingFolder(folderPath) ==
  IF CursorOpen /\ Dirname(currentFocusedFile) = folderPath THEN Pending ELSE 0
PendingLang(lang) ==
  IF CursorOpen /\ ExtSlice(currentFocusedFile) = lang THEN Pending ELSE 0

Folders == {Dirname(file) : file \in Files}
Languages == {ExtSlice(file) : file \in Files} \ {<<>>}

\* C6: as long as no flush finds a span of 5 min or more, time credited plus
\* time pending is conserved by every handler and timer callback, however
\* many flushes it performs, and grows by exactly the clock's step for the
\* focused file, its folder and its language (if it has one) and for nothing
\* else.  So from the instant A gains focus to the instant focus moves on, A
\* is credited exactly the time elapsed.  A focus change to a file opens that
\* file's cursor at the instant of the change, with nothing pending.
C6_FocusAttribution ==
  [][RunningStep /\ Pending < 300000 =>
       /\ \A file \in Files :
            FileTime(file)' + PendingFile(file)'
              = FileTime(file) + PendingFile(file)
                + (IF currentFocusedFile = file THEN now' - now ELSE 0)
       /\ \A folderPath \in Folders :
            FolderTime(folderPath)' + PendingFolder(folderPath)'
              = FolderTime(folderPath) + PendingFolder(folderPath)
                + (IF CursorOpen /\ Dirname(currentFocusedFile) = folderPath
                   THEN now' - now ELSE 0)
       /\ \A lang \in Languages :
            LangTime(lang)' + PendingLang(lang)'
              = LangTime(lang) + PendingLang(lang)
                + (IF CursorOpen /\ ExtSlice(currentFocusedFile) = lang
                   THEN now' - now ELSE 0)
       /\ \A file \in Files :
            FocusChange(file) =>
              /\ currentFocusedFile' = file
              /\ focusStartTime' = now
              /\ FileTime(file)' = FileTime(file) + PendingFile(file)
       /\ FocusChange(NoFile) => ~CursorOpen']_vars

\* C6 witness: a.py was in view for 2 s, in two clock steps; focus has just
\* moved to Makefile, whose cursor opens now with no time credited.
C6_Witness ==
  /\ phase = "running"
  /\ now = sessionStart + 2000
  /\ FileTime(FileA) = 2000
  /\ FolderTime("/p") = 2000
  /\ LangTime(<<"py">>) = 2000
  /\ currentFocusedFile = FileM
  /\ focusStartTime = now
  /\ FileTime(FileM) = 0

\* C7: a step of the running process that finds the cursor open since 5 min
\* or more credits nothing to any file, folder or language; the flushes of the
\* heartbeat, of the idle check and of the export leave the cursor on its file
\* with focusStartTime reset to the instant of the flush.
C7_StaleFlushDiscarded ==
  [][RunningStep /\ CursorOpen /\ now - focusStartTime >= 300000 =>
       /\ \A file \in Files : FileTime(file)' = FileTime(file)
       /\ \A folderPath \in Folders : FolderTime(folderPath)' = FolderTime(folderPath)
       /\ \A lang \in Languages : LangTime(lang)' = LangTime(lang)
       /\ ( \/ PeriodicUpdate
            \/ \E ok \in BOOLEAN : ActivityCheck(ok)
            \/ \E ok \in BOOLEAN : ExportData(ok) )
            => /\ currentFocusedFile' = currentFocusedFile
               /\ focusStartTime' = now]_vars

\* C7 witness: a.py gained focus at the start (no activity since), and a flush
\* 5 min later reset the cursor without crediting anything.
C7_Witness ==
  /\ phase = "running"
  /\ now = sessionStart + 300000
  /\ lastActivityTime = sessionStart
  /\ currentFocusedFile = FileA
  /\ focusStartTime = now
  /\ FileTime(FileA) = 0
  /\ FolderTime("/p") = 0
  /\ LangTime(<<"py">>) = 0

\* C8: the time credited to all files together never exceeds the time since
\* the session started.
C8_TimeWithinSession ==
  SumOver([file \in DOMAIN fileStats |-> fileStats[file].timeSpent],
          DOMAIN fileStats) <= now - sessionStart

\* C8 witness: two files share the whole of a session that is 2 s old.
C8_Witness ==
  /\ phase = "running"
  /\ FileTime(FileA) = 1000
  /\ FileTime(FileM) = 1000
  /\ now - sessionStart = 2000

\* C9: a debug start sets the start instant to now, whether or not one was
\* open; a debug end with an open start adds now less the start instant to
\* debuggingTime and clears the start instant.
C9_DebugAccrual ==
  [][RunningStep =>
       /\ DebugStart => debugStartTime' = now /\ debuggingTime' = debuggingTime
       /\ DebugEnd /\ debugStartTime # Null =>
            /\ debuggingTime' = debuggingTime + (now - debugStartTime)
            /\ debugStartTime' = Null]_vars

\* C9 witness: a debug session has ended 2 s into the process, with 1 s credited.
C9_Witness ==
  /\ phase = "running"
  /\ now = sessionStart + 2000
  /\ lastActivityTime = now
  /\ debugStartTime = Null
  /\ debuggingTime = 1000

\* C10: a debug end with no start open changes nothing.
C10_OrphanDebugEnd ==
  [][DebugEnd /\ debugStartTime = Null => UNCHANGED vars]_vars

\* C10 witness: a debug session was started and ended; no start is open, so
\* the next debug end is an orphan.
C10_Witness ==
  /\ phase = "running"
  /\ scope.debug
  /\ debugStartTime = Null
  /\ debuggingTime = 1000
  /\ now = sessionStart + 1000

\* A file-note request for `file` whose input box returned `input`.
FileNoteRequest(file, input) == \E ok \in BOOLEAN : AddFileNote(file, input, ok)

\* C11: a file note for a file without a record creates the record with no
\* edits, no time and that one note; a file note for a file with a record
\* appends the note and leaves the record's edits and time as they were.
C11_FileNoteRecord ==
  [][\A file \in Files, input \in NoteInputs :
       NoteGiven(input) /\ FileNoteRequest(file, input) =>
         IF file \notin DOMAIN fileStats
         THEN /\ file \in DOMAIN fileStats'
              /\ fileStats'[file].edits = 0
              /\ fileStats'[file].timeSpent = 0
              /\ fileStats'[file].notes = <<FormatNote(now, input.text)>>
         ELSE /\ fileStats'[file].notes
                   = Append(fileStats[file].notes, FormatNote(now, input.text))
              /\ fileStats'[file].edits = fileStats[file].edits
              /\ fileStats'[file].timeSpent = fileStats[file].timeSpent]_vars

\* A step of the process between its activation and the end of deactivate().
ProcessStep == phase = "running" /\ phase' \in {"running", "deactivated"}

\* C12: the accumulators are never negative, and no step of the process makes
\* one of them smaller or removes a record that carries one.
C12_MonotonicAccumulators ==
  /\ [](/\ activeCodingTime >= 0 /\ debuggingTime >= 0 /\ idleTime >= 0
        /\ \A file \in DOMAIN fileStats : fileStats[file].timeSpent >= 0
        /\ \A folderPath \in DOMAIN folderStats :
             folderStats[folderPath].timeSpent >= 0
        /\ \A lang \in DOMAIN languageUsage : languageUsage[lang] >= 0)
  /\ [][ProcessStep =>
          /\ activeCodingTime' >= activeCodingTime
          /\ debuggingTime' >= debuggingTime
          /\ idleTime' >= idleTime
          /\ \A file \in DOMAIN fileStats :
               /\ file \in DOMAIN fileStats'
               /\ fileStats'[file].timeSpent >= fileStats[file].timeSpent
          /\ \A folderPath \in DOMAIN folderStats :
               /\ folderPath \in DOMAIN folderStats'
               /\ folderStats'[folderPath].timeSpent
                    >= folderStats[folderPath].timeSpent
          /\ \A lang \in DOMAIN languageUsage :
               /\ lang \in DOMAIN languageUsage'
               /\ languageUsage'[lang] >= languageUsage[lang]]_vars

\* C12 witness: debugging for 5 min and for 1 s has ended: the total holds
\* both spans.
C12_Witness ==
  /\ phase = "running"
  /\ debugStartTime = Null
  /\ debuggingTime = 300000 + 1000

\* What reading the file at logPath and writing back what was read leaves there.
LoadThenSave(d) == SaveSessionData(d, LoadSessionData(Mem, d), TRUE)

C14_LoadNeverFails ==
  /\ [](disk.state # "ok" =>
          LoadSessionData(Mem, disk)
            = [ sessionStart |-> ToISOString(sessionStart),
                sessionEnd |-> Undefined, totalSessionTime |-> Null,
                activeCodingTime |-> 0, debuggingTime |-> 0, idleTime |-> 0,
                fileActivity |-> EmptyMap, folderActivity |-> EmptyMap,
                languageUsage |-> EmptyMap, customNotes |-> <<>> ])
  /\ [][phase = "running" /\ disk.state # "ok" =>
          /\ phase' = "running"
          /\ \A input \in NoteInputs :
               NoteGiven(input) /\ AddNote(input, TRUE) =>
                 /\ disk'.state = "ok"
                 /\ disk'.data.customNotes = <<FormatNote(now, input.text)>>]_vars

\* C14 witness: the process started over an unreadable file (its first write
\* failed), and a session note has since been added.
C14_Witness ==
  /\ phase = "running"
  /\ scope.legacy
  /\ disk.state = "ok"
  /\ disk.data.sessionEnd = Undefined
  /\ DiskNotes = <<FormatNote(now, <<"x">>)>>
  /\ disk.data.fileActivity = EmptyMap

\* The snapshot message that sendSessionDataToPanel would post in this state.
Snapshot == UpdateMessage(Mem, disk, now)

\* Panel p is subscribed, is visible, and its webview accepts messages.
Subscribed(p) == Listed(activeDashboardPanels, p)
Reachable(p) == Subscribed(p) /\ visible[p] /\ p \notin broken

\* A session note, a file note is added (the input box returned a text that is
\* not blank).
NoteAdded == \E input \in NoteInputs, ok \in BOOLEAN :
               NoteGiven(input) /\ AddNote(input, ok)
FileNoteAdded == \E file \in Files, input \in NoteInputs :
                   NoteGiven(input) /\ FileNoteRequest(file, input)

\* The handling of a state-changing event.
EventStep ==
  \/ \E file \in Files : Edit(file)
  \/ \E file \in Files \cup {NoFile} : FocusChange(file)
  \/ DebugStart
  \/ DebugEnd /\ debugStartTime # Null
  \/ NoteAdded
  \/ FileNoteAdded

\* A tick of the idle check, of the heartbeat.
IdleCheckTick == \E ok \in BOOLEAN : ActivityCheck(ok)
HeartbeatTick == PeriodicUpdate

\* A step that calls broadcastToDashboards().
BroadcastStep == EventStep \/ IdleCheckTick \/ HeartbeatTick

\* C15: a broadcast posts the snapshot to every subscribed panel that is
\* visible and nothing to one that is hidden; the hidden panel stays
\* subscribed, so that once revealed it is among the visible ones that the
\* next broadcast, the heartbeat's included, posts to.
C15_VisibleSubscribersOnly ==
  [][(\E p \in Panels : Subscribed(p)) /\ now' = now /\ BroadcastStep =>
       \A p \in Panels :
         /\ Reachable(p) => inbox'[p] = Snapshot'
         /\ ~visible[p] => inbox'[p] = inbox[p]
         /\ Subscribed(p) => Subscribed(p)']_vars

\* C15 witness: two panels are subscribed; the hidden one holds an older
\* message than the visible one, which holds the current snapshot.
C15_Witness ==
  /\ phase = "running"
  /\ Subscribed("p1") /\ Subscribed("p2")
  /\ ~visible["p1"] /\ visible["p2"]
  /\ inbox["p2"] = Snapshot
  /\ inbox["p1"].type = "update"
  /\ inbox["p1"] # inbox["p2"]

\* C16: when the post to a visible panel fails during a broadcast, every
\* other visible panel is still posted the snapshot, the panel that failed
\* keeps what it had, and the handler or tick that broadcast completes with
\* its full effect on the variables, the process still running.
C16_DeliveryFailureIsolated ==
  [][(\E p \in Panels : Subscribed(p) /\ visible[p] /\ p \in broken)
       /\ now' = now /\ BroadcastStep =>
       /\ \A p \in Panels :
            /\ Reachable(p) => inbox'[p] = Snapshot'
            /\ p \in broken => inbox'[p] = inbox[p]
       /\ phase' = "running"
       /\ UNCHANGED <<disk, activeDashboardPanels, visible>>
       /\ DebugStart => Mem' = UpdateFileTimeSpent(OnDebugStart(Mem, now), now)
       /\ DebugEnd => Mem' = UpdateFileTimeSpent(OnDebugEnd(Mem, now), now)
       /\ FocusChange(NoFile) => Mem' = UpdateFileTimeSpent(OnFocus(Mem, NoFile, now), now)
       /\ HeartbeatTick => Mem' = UpdateFileTimeSpent(Mem, now)]_vars

\* C16 witness: of two visible panels the first one fails; a debug start 1 s
\* into the session has reached the second one only.
C16_Witness ==
  /\ phase = "running"
  /\ activeDashboardPanels = <<"p1", "p2">>
  /\ visible["p1"] /\ visible["p2"]
  /\ broken = {"p1"}
  /\ debugStartTime = now
  /\ now = sessionStart + 1000
  /\ inbox["p2"] = Snapshot
  /\ inbox["p1"] # Snapshot

\* C17: the handling of every state-changing event, and every heartbeat tick,
\* ends with every visible panel holding the snapshot of the state the
\* handling led to: the edit is counted in it, the debug session that ended is
\* in its debuggingTime, the note that was written is in its notes.
C17_EventsBroadcast ==
  [][RunningStep /\ now' = now /\ (\E p \in Panels : Reachable(p)) =>
       /\ EventStep \/ HeartbeatTick =>
            \A p \in Panels : Reachable(p) => inbox'[p] = Snapshot'
       /\ \A p \in Panels, file \in Files :
            Reachable(p) /\ Edit(file) =>
              inbox'[p].data.fileActivity[file].edits = Edits(file) + 1
       /\ \A p \in Panels :
            Reachable(p) /\ DebugEnd /\ debugStartTime # Null =>
              inbox'[p].data.debuggingTime = debuggingTime + (now - debugStartTime)
       /\ \A p \in Panels, input \in NoteInputs :
            Reachable(p) /\ NoteGiven(input) /\ AddNote(input, TRUE) =>
              inbox'[p].data.customNotes
                = Append(DiskNotes, FormatNote(now, input.text))
       /\ \A p \in Panels, file \in Files, input \in NoteInputs :
            Reachable(p) /\ NoteGiven(input) /\ FileNoteRequest(file, input) =>
              LET notes == inbox'[p].data.fileActivity[file].notes
              IN notes # <<>> /\ notes[Len(notes)] = FormatNote(now, input.text)]_vars

\* C17 witness: a visible panel holds the snapshot with the edit of a.py made
\* 1 s into the session, and a debug session is open since that instant too.
C17_Witness ==
  /\ phase = "running"
  /\ Reachable("p1")
  /\ inbox["p1"] = Snapshot
  /\ FileA \in DOMAIN inbox["p1"].data.fileActivity
  /\ inbox["p1"].data.fileActivity[FileA].edits = 1
  /\ inbox["p1"].data.totalSessionTime = 1000
  /\ lastEditTime = now
  /\ debugStartTime = now

\* The document that the saveSessionFile() of the idle check writes when it
\* runs in this state and its write succeeds.
PeriodicSave == SaveSessionFile(Mem, disk, now, TRUE).disk.data

\* C18: a handler whose write to logPath fails leaves the variables as they
\* are on a write that succeeds and the process running, and a periodic save
\* that succeeds next writes what the failed write held: the session note
\* that was being added, the state of the variables.
C18_FailedWriteRetried ==
  [][RunningStep /\ scope.faults =>
       /\ \A input \in NoteInputs :
            NoteGiven(input) /\ AddNote(input, FALSE) =>
              /\ Mem' = BroadcastToDashboards(Mem, now, activeDashboardPanels,
                                              visible)
              /\ \E i \in 1..Len(PeriodicSave'.customNotes) :
                   PeriodicSave'.customNotes[i] = FormatNote(now, input.text)
       /\ ActivityCheck(FALSE) =>
            /\ PeriodicSave'.fileActivity = fileStats'
            /\ PeriodicSave'.idleTime = idleTime'
            /\ PeriodicSave'.activeCodingTime = activeCodingTime']_vars

C20_FolderFileCount ==
  /\ \A folderPath \in DOMAIN folderStats :
       folderStats[folderPath].files
         = Cardinality({f \in DOMAIN fileStats :
                          fileStats[f].folderPath = folderPath})
  /\ \A f \in DOMAIN fileStats : fileStats[f].folderPath \in DOMAIN folderStats

\* C23: a step of the process changes the time of a file only if the focus
\* cursor is open on that file, and then by the span from the cursor's start,
\* which is less than 5 min back, to the end of the step; so edits, notes, debug events and ticks add nothing
\* to a file that is not in focus, and a file that is edited and never
\* focused stays at 0.
C23_TimeOnlyWhileFocused ==
  [][ProcessStep =>
       \A file \in Files :
         FileTime(file)' # FileTime(file) =>
           /\ CursorOpen
           /\ currentFocusedFile = file
           /\ now - focusStartTime < 300000
           /\ FileTime(file)' = FileTime(file) + (now' - focusStartTime)]_vars

\* C23 witness: Makefile has been edited twice, 1 s apart, while a.py was in
\* focus: the second went to a.py, none to Makefile.
C23_Witness ==
  /\ phase = "running"
  /\ currentFocusedFile = FileA
  /\ FileTime(FileA) = 1000
  /\ Edits(FileM) = 2
  /\ activeCodingTime = 1000
  /\ FileTime(FileM) = 0

\* The time of the file records whose folder is folderPath, added up.
FilesTimeIn(folderPath) ==
  LET S == {file \in DOMAIN fileStats : fileStats[file].folderPath = folderPath}
  IN SumOver([file \in S |-> fileStats[file].timeSpent], S)

\* C24: the time of every folder record is the sum of the times of the file
\* records of that folder, and the files of a folder that has no record have
\* no time.
C24_FolderTimeIsSum ==
  /\ \A folderPath \in DOMAIN folderStats :
       folderStats[folderPath].timeSpent = FilesTimeIn(folderPath)
  /\ \A file \in DOMAIN fileStats :
       fileStats[file].folderPath \notin DOMAIN folderStats =>
         fileStats[file].timeSpent = 0

\* C24 witness: two files of folder /p have been in focus for 1 s each, and
\* the folder holds 2 s.
C24_Witness ==
  /\ phase = "running"
  /\ FileTime(FileA) = 1000
  /\ FileTime(FileB) = 1000
  /\ FolderTime("/p") = 2000

\* The time of the file records whose language is lang, added up.
FilesTimeOf(lang) ==
  LET S == {file \in DOMAIN fileStats : fileStats[file].language = lang}
  IN SumOver([file \in S |-> fileStats[file].timeSpent], S)

\* C25: languageUsage has no entry for the empty language; the entry of a
\* language is the sum of the times of the file records of that language; and
\* the file records of a language that has no entry, the empty one apart,
\* have no time.
C25_LanguageTimeIsSum ==
  /\ <<>> \notin DOMAIN languageUsage
  /\ \A lang \in DOMAIN languageUsage : languageUsage[lang] = FilesTimeOf(lang)
  /\ \A file \in DOMAIN fileStats :
       /\ fileStats[file].language # <<>>
       /\ fileStats[file].language \notin DOMAIN languageUsage
       => fileStats[file].timeSpent = 0

\* C25 witness: Makefile (no extension) and a.py have been in focus for 1 s
\* each; languageUsage holds 1 s for py and nothing else.
C25_Witness ==
  /\ phase = "running"
  /\ FileTime(FileM) = 1000
  /\ FileTime(FileA) = 1000
  /\ DOMAIN languageUsage = {<<"py">>}
  /\ languageUsage[<<"py">>] = 1000

\* C30: there is one focus cursor, the pair of currentFocusedFile and
\* focusStartTime: both are set or both are null; when they are set, the file
\* has a file record and the start is an instant not after the clock.
C30_CursorWellFormed ==
  /\ (currentFocusedFile = NoFile) <=> (focusStartTime = Null)
  /\ currentFocusedFile # NoFile =>
       /\ currentFocusedFile \in DOMAIN fileStats
       /\ focusStartTime > 0
       /\ focusStartTime <= now

\* C30 witness: a.py and Makefile have records, and the cursor is open on
\* Makefile since 1 s.
C30_Witness ==
  /\ phase = "running"
  /\ currentFocusedFile = FileM
  /\ focusStartTime = now - 1000
  /\ FileA \in DOMAIN fileStats
  /\ Edits(FileA) = 1
  /\ Edits(FileM) = 1
  /\ FileTime(FileA) = 0

\* A session note is added and written to logPath.
NoteStored == \E input \in NoteInputs : NoteGiven(input) /\ AddNote(input, TRUE)

\* C26: every event handled by the running process (an edit, a focus change
\* to a file or to none, a debug start, a debug end, a session note, a file
\* note) sets lastActivityTime to the instant of the event, and a tick of the
\* idle check or of the heartbeat leaves it as it is.
C26_LastActivityTime ==
  [][RunningStep =>
       /\ (\/ \E file \in Files : Edit(file)
           \/ \E file \in Files \cup {NoFile} : FocusChange(file)
           \/ DebugStart
           \/ DebugEnd
           \/ NoteStored
           \/ FileNoteAdded) => lastActivityTime' = now
       /\ IdleCheckTick \/ HeartbeatTick => lastActivityTime' = lastActivityTime]_vars

\* C28: while one process runs and no write fails, whatever the order of
\* session notes, file notes, ticks of the idle check and of the heartbeat
\* and exports: the step that adds a session note appends that note, once, to
\* the notes at logPath; no other step changes the notes at logPath, so every
\* later save holds every note added, once and in the order of addition; and
\* every snapshot posted to a panel, and every document taken for an export,
\* holds exactly the notes at logPath.
C28_NotesKept ==
  [][ProcessStep /\ ~scope.faults =>
       /\ \A input \in NoteInputs :
            NoteGiven(input) /\ AddNote(input, TRUE) =>
              DiskNotes' = Append(DiskNotes, FormatNote(now, input.text))
       /\ ~NoteStored => DiskNotes' = DiskNotes
       /\ \A p \in Panels :
            inbox'[p] # inbox[p] /\ inbox'[p].type = "update" =>
              inbox'[p].data.customNotes = DiskNotes'
       /\ pendingExport'.open /\ ~pendingExport.open =>
            pendingExport'.data.customNotes = DiskNotes']_vars

\* C28 witness: two session notes were added, a later save of the running
\* process has written the file, and the panel's snapshot holds both notes.
C28_Witness ==
  /\ phase = "running"
  /\ scope.name = "interleave"
  /\ Len(DiskNotes) = 2
  /\ disk.data.sessionEnd = ToISOString(now)
  /\ visible["p1"]
  /\ inbox["p1"].type = "update"
  /\ inbox["p1"].data.customNotes = DiskNotes

\* C29: whatever document is at logPath, what loadSessionData returns has
\* every field defined: the session note list is a list, and every file
\* record has a list of notes.
C29_LoadFillsDefaults ==
  phase = "running" /\ disk.state = "ok" =>
    LET loaded == LoadSessionData(Mem, disk)
    IN /\ \A file \in DOMAIN loaded.fileActivity :
            "notes" \in DOMAIN loaded.fileActivity[file]
       /\ HasCustomNotes(loaded)
       /\ \A field \in {"sessionStart", "activeCodingTime", "debuggingTime",
                        "idleTime", "fileActivity", "folderActivity",
                        "languageUsage"} : field \in DOMAIN loaded

\* C22: the export command writes to the chosen path the snapshot of the
\* variables taken, after the flush, at the instant of the command: the
\* document it holds while the save dialog is open is that snapshot, whether
\* or not its write to logPath succeeded, and the file at the chosen path is
\* that document once the dialog has returned a path.
C22_ExportIsSnapshot ==
  [][RunningStep =>
       /\ (\E ok \in BOOLEAN : ExportData(ok)) =>
            /\ pendingExport'.open
            /\ pendingExport'.data.activeCodingTime = activeCodingTime'
            /\ pendingExport'.data.debuggingTime = debuggingTime'
            /\ pendingExport'.data.idleTime = idleTime'
            /\ pendingExport'.data.fileActivity = fileStats'
            /\ pendingExport'.data.folderActivity = folderStats'
            /\ pendingExport'.data.languageUsage = languageUsage'
            /\ pendingExport'.data.customNotes = DiskNotes'
       /\ ExportChosen(TRUE, TRUE) => exportFile' = FileWith(pendingExport.data)]_vars

\* C21: a save replaces the document at logPath in one step: a file that
\* holds a complete document holds, after every step, that document or the
\* complete new one, never an empty or partial one.
C21_AtomicSave ==
  [][disk.state = "ok" => disk'.state = "ok"]_vars

\* C27: the visible panels that one broadcast serves are all posted the same
\* message of type "update": one snapshot, with one sessionEnd, the same
\* counters, records and notes.
C27_OneSnapshot ==
  [][(\E p \in Panels : Subscribed(p)) /\ BroadcastStep =>
       \A p, q \in Panels :
         Reachable(p) /\ Reachable(q) =>
           /\ inbox'[p].type = "update"
           /\ inbox'[p] = inbox'[q]]_vars

\* The notes of a file's record in the document at logPath.
DiskFileNotes(file) ==
  IF disk.state = "ok" /\ file \in DOMAIN disk.data.fileActivity
     /\ "notes" \in DOMAIN disk.data.fileActivity[file]
  THEN disk.data.fileActivity[file].notes
  ELSE <<>>

\* C31: the file notes that the document at logPath holds are still there, in
\* that file's record and in order, after every step that leaves a process
\* running: after the activation of a successor process and after each of
\* its saves.
C31_FileNotesSurviveRestart ==
  [][phase' = "running" =>
       \A file \in Files : IsPrefix(DiskFileNotes(file), DiskFileNotes(file)')]_vars

\* How many times panel p is in the list of active panels.
TimesListed(p) ==
  Cardinality({i \in 1..Len(activeDashboardPanels) : activeDashboardPanels[i] = p})

\* C32: showDashboard puts the new panel in the list, once, and posts it the
\* snapshot at once, and touches no other panel; disposing a panel takes it
\* out of the list and leaves the others listed, in their order; a panel that
\* is not in the list is posted nothing by any step but its own
\* showDashboard, while every broadcast goes on reaching the listed panels
\* that are visible.
C32_SubscriptionLifecycle ==
  [][RunningStep /\ now' = now /\ scope.panels # {} =>
       /\ \A p \in Panels :
            activeDashboardPanels' # activeDashboardPanels /\ ShowDashboard(p) =>
              /\ ~Subscribed(p)
              /\ TimesListed(p)' = 1
              /\ inbox'[p] = Snapshot'
              /\ inbox'[p].type = "update"
              /\ \A q \in Panels \ {p} :
                   /\ Subscribed(q)' = Subscribed(q)
                   /\ inbox'[q] = inbox[q]
       /\ \A p \in Panels :
            DisposePanel(p) =>
              /\ ~Subscribed(p)'
              /\ activeDashboardPanels'
                   = SelectSeq(activeDashboardPanels, LAMBDA q : q # p)
              /\ \A q \in Panels \ {p} : Subscribed(q)' = Subscribed(q)
       /\ \A p \in Panels :
            ~Subscribed(p) /\ ~Subscribed(p)' => inbox'[p] = inbox[p]
       /\ \A p \in Panels :
            Subscribed(p)' /\ ~Subscribed(p) => ShowDashboard(p)
       /\ \A p \in Panels : TimesListed(p)' <= 1
       /\ (\E p \in Panels : Reachable(p)) /\ BroadcastStep =>
            \A q \in Panels : Reachable(q) => inbox'[q] = Snapshot']_vars

\* C32 witness: p1 is not in the list and holds no message; p2 is in the list
\* and holds the snapshot of the broadcast of a debug start made 1 s into the
\* session.
C32_Witness ==
  /\ phase = "running"
  /\ activeDashboardPanels = <<"p2">>
  /\ visible["p2"]
  /\ inbox["p1"] = NoMessage
  /\ debugStartTime = now
  /\ now = sessionStart + 1000
  /\ inbox["p2"] = Snapshot

\* C33: a save made while reads of logPath fail still writes every session
\* note the file held: the document such a step writes has the file's notes
\* as a prefix of its own.
C33_ReadFailureKeepsNotes ==
  [][RunningStep /\ ~readable /\ disk.state = "ok"
       /\ disk' # disk /\ disk'.state = "ok" =>
       IsPrefix(DiskNotes, DiskNotes')]_vars

\* C34: the time credited as active coding and the time credited as idle
\* together never exceed the age of the session.
C34_ActivePlusIdleWithinSession ==
  activeCodingTime + idleTime <= now - sessionStart

\* C34 witness: two edits 1 s apart, then 5 min without activity, of which
\* the idle check credited the 2 min beyond the timeout, then an edit that
\* ended the idle period and added nothing.
C34_Witness ==
  /\ phase = "running"
  /\ activeCodingTime = 1000
  /\ idleTime = 120000
  /\ ~isIdle
  /\ lastEditTime = now
  /\ now - sessionStart = 301000

\* C35: the time credited to the files and the time credited as idle
\* together never exceed the age of the session: a span credited as idle is
\* not credited to the file in focus as well.
C35_FocusPlusIdleWithinSession ==
  SumOver([file \in DOMAIN fileStats |-> fileStats[file].timeSpent],
          DOMAIN fileStats) + idleTime <= now - sessionStart

\* The input box was cancelled, or returned an empty text or blanks only.
Blank(input) == ~input.given \/ \A i \in 1..Len(input.text) : input.text[i] = " "

\* C36: a note request, for the session or for a file, whose input is
\* cancelled, empty or blank can run and changes nothing at all: no note, no
\* file record, no write to logPath, no message to a panel or to the user;
\* and a note that is not blank is stored as its local timestamp followed by
\* its text without the blanks around it.
C36_BlankNoteIsNoOp ==
  /\ [](phase = "running" =>
          \A input \in NoteInputs, ok \in BOOLEAN :
            Blank(input) =>
              /\ ENABLED AddNote(input, ok)
              /\ ~ENABLED (AddNote(input, ok) /\ vars' # vars)
              /\ \A file \in Files :
                   /\ ENABLED AddFileNote(file, input, ok)
                   /\ ~ENABLED (AddFileNote(file, input, ok) /\ vars' # vars))
  /\ [][RunningStep /\ lastNoteAdded' # lastNoteAdded =>
          LET stored == <<<<"locale", now \div 1000>>, <<"x">>>>
          IN /\ AddNote([given |-> TRUE, text |-> <<" ", "x", " ">>], TRUE) =>
                  /\ DiskNotes' # <<>>
                  /\ DiskNotes'[Len(DiskNotes')] = stored
             /\ \A file \in Files :
                  FileNoteRequest(file, [given |-> TRUE, text |-> <<" ", "x", " ">>]) =>
                    /\ file \in DOMAIN fileStats'
                    /\ fileStats'[file].notes # <<>>
                    /\ fileStats'[file].notes[Len(fileStats'[file].notes)] = stored]_vars

\* C36 witness: the session note and the file note entered as " x " are
\* stored as "x" with their timestamp.
C36_Witness ==
  /\ phase = "running"
  /\ Len(DiskNotes) = 1
  /\ DiskNotes[1] = <<<<"locale", now \div 1000>>, <<"x">>>>
  /\ FileA \in DOMAIN fileStats
  /\ fileStats[FileA].notes = <<<<<<"locale", now \div 1000>>, <<"x">>>>>>

====
